---- MODULE Spec2Model ----
(***************************************************************************)
(* A model of the monitoring engine of Py-SiteCheck (core/monitor.py):     *)
(* the registry of monitored sites, the one-off and periodic check         *)
(* threads, the transition detector and the callback lists; and of the     *)
(* way the application registers a site (gui/app.py, core/utils.py).       *)
(*                                                                         *)
(* Threads are interleaved at the granularity of the statements that read  *)
(* or write shared state.  A block guarded by `with self._lock` is split   *)
(* where another thread can observe its intermediate state.                *)
(* Timestamps (last_check, AlertEntry.timestamp) are left out.             *)
(***************************************************************************)
EXTENDS Integers, Sequences, FiniteSets, TLC

\* ------------------------------------------------------------------ bounds
NumUrls == 2          \* endpoints the user may register
MaxThreads == 2       \* threading.Thread objects alive at one time
MaxAlerts == 2        \* entries of the alert log before clear_alerts is needed
IntervalTicks == 1    \* check_interval, in 0.5 s sleeps of the wait loop

\* A measured latency of a successful request, in ms.
LatencyMs == 45

VARIABLES
    sites,             \* self.sites: dict url -> SiteStatus, in insertion order
    previous_states,   \* self._previous_states: dict url -> bool
    alerts,            \* self._alerts: list of AlertEntry
    callbacks,         \* self._callbacks
    alert_callbacks,   \* self._alert_callbacks
    running,           \* self._running
    monitor_thread,    \* self._monitor_thread: {} (None) or {thread}
    lock,              \* self._lock: {} (free) or {holder}
    threads,           \* the Thread objects: position and locals of each
    caller,            \* the thread that calls the public methods
    ret,               \* what the caller's last call returned
    site_cards,        \* the application's self.site_cards: the urls that have
                       \* a card on the dashboard
    hist,              \* history, per url and since it was registered: the
                       \* first-check threads spawned, the online flag of the
                       \* last applied check, the kind of the last alert,
                       \* whether a check has been published
    env                \* the world of the run: the endpoints the user enters
                       \* and what the network answers

vars == << sites, previous_states, alerts, callbacks, alert_callbacks, running,
           monitor_thread, lock, threads, caller, ret, site_cards, hist, env >>

\* ------------------------------------------------------------- endpoints
\* An endpoint as urlparse sees it: scheme and netloc (a sequence of characters).
Url(scheme, netloc) == [scheme |-> scheme, netloc |-> netloc]

UrlTable ==
    << Url("https", <<"a">>),
       Url("http", <<"b">>),
       Url("https", <<"c", ":", "8">>),
       Url("http", <<"d", ":", "x">>),
       Url("http", <<"e", ":", "0">>) >>

URLS == { UrlTable[i] : i \in 1..NumUrls }

NoUrl == Url("", <<>>)

\* The Thread objects of the run.
Threads == 1..env.threads

\* The thread of the caller (the GUI main thread) as a lock holder.
Main == 0

\* ---------------------------------------------------------- SiteStatus
\* SiteStatus(url=url): the dataclass defaults.
SiteStatus(url) ==
    [ url |-> url, is_online |-> FALSE, status_code |-> -1,
      latency_ms |-> -1, port_open |-> FALSE, port_checked |-> 443,
      error_message |-> "" ]

\* AlertEntry(url, alert_type, message, status_code)
AlertEntry(url, alert_type, message, status_code) ==
    [ url |-> url, alert_type |-> alert_type, message |-> message,
      status_code |-> status_code ]

\* ------------------------------------------------------- dict helpers
SiteKeys == { sites[i].url : i \in 1..Len(sites) }

\* url in self.sites
InSites(url) == url \in SiteKeys

SiteIndex(url) == CHOOSE i \in 1..Len(sites) : sites[i].url = url

\* self.sites[url]
Site(url) == sites[SiteIndex(url)]

\* remove_site without lines 181-182.
DelSite_Keep(url) == sites

\* del self.sites[url]
DelSite(url) == SelectSeq(sites, LAMBDA s : s.url # url)

\* list(self.sites.keys())
KeyList == [ i \in 1..Len(sites) |-> sites[i].url ]

\* self._previous_states.get(url): <<>> is None, <<b>> is the bool b
PrevGet(url) ==
    IF url \in DOMAIN previous_states THEN << previous_states[url] >> ELSE <<>>

\* d[url] = v on a dict d
DictPut(d, url, v) ==
    [ k \in (DOMAIN d) \cup {url} |-> IF k = url THEN v ELSE d[k] ]

\* del d[url] on a dict d
DictDel(d, url) == [ k \in (DOMAIN d) \ {url} |-> d[k] ]

EmptyDict == [ k \in {} |-> FALSE ]

\* -------------------------------------------------- _get_host_and_port
Digits == << "0", "1", "2", "3", "4", "5", "6", "7", "8", "9" >>

IsDigit(c) == \E i \in 1..Len(Digits) : Digits[i] = c

DigitVal(c) == (CHOOSE i \in 1..Len(Digits) : Digits[i] = c) - 1

Colons(netloc) == { i \in 1..Len(netloc) : netloc[i] = ":" }

Smallest(S) == CHOOSE i \in S : \A j \in S : i <= j

Largest(S) == CHOOSE i \in S : \A j \in S : j <= i

\* parsed.netloc.split(':')[0]
HostOf(netloc) ==
    IF Colons(netloc) = {} THEN netloc
    ELSE SubSeq(netloc, 1, Smallest(Colons(netloc)) - 1)

RECURSIVE IntOf(_)
IntOf(ds) ==
    IF ds = <<>> THEN 0
    ELSE 10 * IntOf(SubSeq(ds, 1, Len(ds) - 1)) + DigitVal(ds[Len(ds)])

\* urlparse(url).port: None, an int, or ValueError raised
PortValue(kind, val) == [ kind |-> kind, val |-> val ]

ParsedPort(netloc) ==
    IF Colons(netloc) = {} THEN PortValue("None", 0)
    ELSE LET text == SubSeq(netloc, Largest(Colons(netloc)) + 1, Len(netloc))
         IN  IF text = <<>> THEN PortValue("None", 0)
             ELSE IF (\A i \in 1..Len(text) : IsDigit(text[i])) /\ IntOf(text) <= 65535
                  THEN PortValue("int", IntOf(text))
                  ELSE PortValue("ValueError", 0)

\* _get_host_and_port(url) -> <<host, port>>
GetHostAndPort(url) ==
    LET host == HostOf(url.netloc)
        p    == ParsedPort(url.netloc)
    IN  IF p.kind = "ValueError" THEN << <<>>, 443 >>
        ELSE IF p.kind = "int" /\ p.val # 0 THEN << host, p.val >>
        ELSE << host, IF url.scheme = "https" THEN 443 ELSE 80 >>

\* ------------------------------------------------------------ validate_url
\* Text the user types is a sequence of characters.
Whitespace == { " ", "\t", "\n" }

Letters ==
    { "a", "b", "c", "d", "e", "f", "g", "h", "i", "j", "k", "l", "m", "n", "o",
      "p", "q", "r", "s", "t", "u", "v", "w", "x", "y", "z" }

\* url.strip()
Strip(text) ==
    LET solid == { i \in 1..Len(text) : text[i] \notin Whitespace }
    IN  IF solid = {} THEN <<>> ELSE SubSeq(text, Smallest(solid), Largest(solid))

\* text.startswith(prefix)
StartsWith(text, prefix) ==
    Len(text) >= Len(prefix) /\ SubSeq(text, 1, Len(prefix)) = prefix

HttpPrefix == << "h", "t", "t", "p", ":", "/", "/" >>

HttpsPrefix == << "h", "t", "t", "p", "s", ":", "/", "/" >>

\* validate_url with the prefix put in front of every input.
NeedsScheme_Always(url) == TRUE

\* line 77: not url.startswith(('http://', 'https://'))
NeedsScheme(url) == ~StartsWith(url, HttpPrefix) /\ ~StartsWith(url, HttpsPrefix)

\* The scheme urlparse finds in front of the first colon.
SchemeName(chars) ==
    IF chars = SubSeq(HttpsPrefix, 1, 5) THEN "https"
    ELSE IF chars = SubSeq(HttpPrefix, 1, 4) THEN "http"
    ELSE ""

\* urlparse(text): the scheme, and the netloc between "//" and the path
UrlParse(text) ==
    IF Colons(text) = {} THEN Url("", <<>>)
    ELSE LET colon == Smallest(Colons(text))
             rest  == SubSeq(text, colon + 1, Len(text))
             ends  == { i \in 3..Len(rest) : rest[i] \in { "/", "?", "#" } }
             stop  == IF ends = {} THEN Len(rest) ELSE Smallest(ends) - 1
         IN  IF StartsWith(rest, << "/", "/" >>)
             THEN Url(SchemeName(SubSeq(text, 1, colon - 1)), SubSeq(rest, 3, stop))
             ELSE Url(SchemeName(SubSeq(text, 1, colon - 1)), <<>>)

\* The text of a parsed url that has no path.
UrlText(url) ==
    (IF url.scheme = "https" THEN HttpsPrefix ELSE HttpPrefix) \o url.netloc

\* One label of the pattern of line 99: [a-zA-Z0-9]([a-zA-Z0-9\-]{0,61}[a-zA-Z0-9])?
\* (the texts of the model are in lower case)
IsAlNum(c) == c \in Letters \/ IsDigit(c)

LabelOk(label) ==
    /\ Len(label) >= 1 /\ Len(label) <= 63
    /\ IsAlNum(label[1]) /\ IsAlNum(label[Len(label)])
    /\ \A i \in 1..Len(label) : IsAlNum(label[i]) \/ label[i] = "-"

\* re.match(domain_pattern, domain): labels with dots between them
DomainOk(domain) ==
    LET dots   == { i \in 1..Len(domain) : domain[i] = "." }
        starts == { 1 } \cup { i + 1 : i \in dots }
        end(b) == IF { i \in dots : i >= b } = {} THEN Len(domain)
                  ELSE Smallest({ i \in dots : i >= b }) - 1
    IN  \A b \in starts : b <= Len(domain) /\ LabelOk(SubSeq(domain, b, end(b)))

\* The tuple validate_url returns: (True, url) or (False, message); result is
\* empty where the code has a message.
Validated(is_valid, result, reason) ==
    [ is_valid |-> is_valid, result |-> result, reason |-> reason ]

\* validate_url(url)
validate_url(raw) ==
    LET stripped == Strip(raw)
        url      == IF NeedsScheme(stripped) THEN HttpsPrefix \o stripped
                    ELSE stripped
        parsed   == UrlParse(url)
        domain   == HostOf(parsed.netloc)
    IN  IF parsed.netloc = <<>>
        THEN Validated(FALSE, <<>>, "Invalid URL: No domain found")
        ELSE IF ~DomainOk(domain)
        THEN Validated(FALSE, <<>>, "Invalid domain")
        ELSE Validated(TRUE, url, "")

\* What the user types into the dialog.
InputTable ==
    << << "e", "x", "a", "m", "p", "l", "e", ".", "c", "o", "m" >>,
       << " ", "e", "x", "a", "m", "p", "l", "e", ".", "c", "o", "m", "\n" >>,
       << "h", "t", "t", "p", "s", ":", "/", "/", "e", "x", "a", "m", "p", "l", "e", ".", "c", "o", "m" >>,
       << "h", "t", "t", "p", ":", "/", "/", "e", "x", "a", "m", "p", "l", "e", ".", "c", "o", "m" >>,
       << "-", "a", ".", "c", "o", "m", "/", "x" >>,
       << " ", " " >>,
       << "h", "t", "t", "p", ":", "/", "/" >>,
       << "a", "_", "b", ".", "c", "o", "m" >> >>

\* ------------------------------------------------------ check_http_status
\* What requests.get does: it returns a response or raises an exception.
Response(code) == [ kind |-> "response", code |-> code, exc |-> "", msg |-> "" ]

Raises(exc, msg) == [ kind |-> "raise", code |-> 0, exc |-> exc, msg |-> msg ]

\* The classes an exception of requests is an instance of.
ClassesOf(exc) ==
    CASE exc = "ReadTimeout"      -> { "ReadTimeout", "Timeout" }
      [] exc = "ConnectTimeout"   -> { "ConnectTimeout", "ConnectionError", "Timeout" }
      [] exc = "ConnectionError"  -> { "ConnectionError" }
      [] exc = "SSLError"         -> { "SSLError", "ConnectionError" }
      [] exc = "TooManyRedirects" -> { "TooManyRedirects" }
      [] OTHER                    -> { exc }

\* The except clauses of check_http_status, in their order.
ExceptClauses ==
    << << "Timeout", "Connection timeout" >>,
       << "ConnectionError", "Connection failed" >>,
       << "SSLError", "SSL certificate error" >>,
       << "TooManyRedirects", "Too many redirects" >> >>

ProbeResult(status_code, latency_ms, error) ==
    [ status_code |-> status_code, latency_ms |-> latency_ms, error |-> error ]

\* check_http_status(url), given what requests.get does
check_http_status(outcome) ==
    IF outcome.kind = "response"
    THEN ProbeResult(outcome.code, LatencyMs, "")
    ELSE LET hit == { i \in 1..Len(ExceptClauses) :
                        ExceptClauses[i][1] \in ClassesOf(outcome.exc) }
         IN  IF hit # {} THEN ProbeResult(-1, -1, ExceptClauses[Smallest(hit)][2])
             ELSE ProbeResult(-1, -1, outcome.msg)

\* The range with its upper limit included.
IsOnline_UpTo400(status_code) == 200 <= status_code /\ status_code <= 400

\* status.is_online = 200 <= status_code < 400
IsOnline(status_code) == 200 <= status_code /\ status_code < 400

\* ---------------------------------------------------- transition detector
HttpText(prefix, status_code) == prefix \o ToString(status_code) \o ")"

\* The f-string alone, without `error or`.
OrElse_TextOnly(error, text) == text

\* error or f"..."
OrElse(error, text) == IF error # "" THEN error ELSE text

\* The detector without the comparison was_online != is_now_online.
DetectAlerts_NoCompare(url, was_online, is_now_online, status_code, error) ==
    IF was_online # <<>>
    THEN IF is_now_online
         THEN << AlertEntry(url, "recovered",
                            HttpText("Site is back online (HTTP ", status_code),
                            status_code) >>
         ELSE << AlertEntry(url, "down",
                            OrElse(error, HttpText("Site is down (HTTP ", status_code)),
                            status_code) >>
    ELSE IF ~is_now_online
    THEN << AlertEntry(url, "down",
                       OrElse(error, HttpText("Site is unreachable (HTTP ", status_code)),
                       status_code) >>
    ELSE <<>>

\* The detector without the branch of the first check.
DetectAlerts_NoFirst(url, was_online, is_now_online, status_code, error) ==
    IF was_online # <<>> /\ was_online[1] # is_now_online
    THEN IF is_now_online
         THEN << AlertEntry(url, "recovered",
                            HttpText("Site is back online (HTTP ", status_code),
                            status_code) >>
         ELSE << AlertEntry(url, "down",
                            OrElse(error, HttpText("Site is down (HTTP ", status_code)),
                            status_code) >>
    ELSE <<>>

\* The alerts one applied check appends, given was_online (<<>> is None).
DetectAlerts(url, was_online, is_now_online, status_code, error) ==
    IF was_online # <<>> /\ was_online[1] # is_now_online
    THEN IF is_now_online
         THEN << AlertEntry(url, "recovered",
                            HttpText("Site is back online (HTTP ", status_code),
                            status_code) >>
         ELSE << AlertEntry(url, "down",
                            OrElse(error, HttpText("Site is down (HTTP ", status_code)),
                            status_code) >>
    ELSE IF was_online = <<>> /\ ~is_now_online
    THEN << AlertEntry(url, "down",
                       OrElse(error, HttpText("Site is unreachable (HTTP ", status_code)),
                       status_code) >>
    ELSE <<>>

\* ------------------------------------------------------------- threads
NoResult == ProbeResult(0, 0, "")

\* A Thread object that is not running, and the locals of a running one:
\*   pc      the statement it is at
\*   origin  who started it: "add_site", "force_check" or "start_monitoring"
\*   url, res, port_open, is_now_online, alert, ci
\*           locals of _check_site and of the notify loops
\*   calls   the callbacks this check has invoked so far, and how each ended
\*   reg     self._callbacks as it was when the status loop began
\*   urls, idx, ticks   locals of check_all_sites and of the wait loop
\*   waits   the method of the monitor at whose `with self._lock` the callback
\*           this check has called stands, "" when there is none
IdleThread ==
    [ pc |-> "idle", origin |-> "none", url |-> NoUrl, res |-> NoResult,
      port_open |-> FALSE, is_now_online |-> FALSE, alert |-> <<>>, ci |-> 0,
      calls |-> <<>>, reg |-> <<>>,
      urls |-> <<>>, idx |-> 0, ticks |-> 0, waits |-> "" ]

\* threading.Thread(target=self._check_site, args=(url,)).start()
CheckThread(url, origin) ==
    [ IdleThread EXCEPT !.pc = "check", !.origin = origin, !.url = url ]

\* threading.Thread(target=self._monitor_loop).start()
MonitorThread == [ IdleThread EXCEPT !.pc = "loop", !.origin = "start_monitoring" ]

IsAlive(t) == threads[t].pc # "idle"

\* The threads that run _monitor_loop.
Workers == { t \in Threads : threads[t].origin = "start_monitoring" }

\* A Thread object that can be started: none refers to it any more.
FreeThreads == { t \in Threads : ~IsAlive(t) /\ t \notin monitor_thread }

FreshThread == Smallest(FreeThreads)

\* The model lets a check take the lock only while the alert log has room for
\* the alert it may append: the user clears a full log (clear_alerts).
Room == Len(alerts) < env.log

\* A returned value: the method, its argument (add_site returns the SiteStatus
\* the registry holds for it), and whether add_site knew the url (it returned
\* at line 176).
Return(op, url, known) ==
    [ op |-> op, url |-> url, known |-> known, val |-> <<>> ]

\* What has happened to a url since it was last registered:
\*   spawned    first-check threads add_site has started for it (reset when it
\*              is removed)
\*   last       is_online of the last check applied to it, <<>> before the first
\*   kind       alert_type of the last alert appended for it
\*   published  a check of it has gone through the status callbacks
NoHistory == [ spawned |-> 0, last |-> <<>>, kind |-> "none", published |-> FALSE ]

\* The methods other than add_site return None.
None == Return("None", NoUrl, FALSE)

IdleCaller == [ pc |-> "idle", url |-> NoUrl ]

\* The state after SiteMonitor() in the world of the run.
InitIn(world) ==
    /\ env = world
    /\ sites = <<>>
    /\ previous_states = EmptyDict
    /\ alerts = <<>>
    /\ callbacks = <<>>
    /\ alert_callbacks = <<>>
    /\ running = FALSE
    /\ monitor_thread = {}
    /\ lock = {}
    /\ threads = [ t \in Threads |-> IdleThread ]
    /\ caller = [ pc |-> "boot", url |-> NoUrl ]
    /\ ret = None
    /\ site_cards = {}
    /\ hist = [ u \in world.urls |-> NoHistory ]

\* A write that goes to the first SiteStatus of the registry, whichever url
\* it was made for.
SitePut_Front(url, status) ==
    IF InSites(url) THEN [ sites EXCEPT ![1] = status ]
    ELSE Append(sites, status)

\* ------------------------------------------------ the public methods
\* self.sites[url] = status
SitePut(url, status) ==
    IF InSites(url) THEN [ sites EXCEPT ![SiteIndex(url)] = status ]
    ELSE Append(sites, status)

\* add_site and remove_site without `with self._lock`.
CallerCanEnter_Unlocked == TRUE

\* lines 169 and 180: with self._lock, in the caller's thread
CallerCanEnter == lock = {}

\* add_site without the test of line 170.
IsNewSite_Always(url) == TRUE

\* add_site, line 170: the url is new
IsNewSite(url) == ~InSites(url)

\* add_site up to self.sites[url] = status, or all of it for a known url.
\* site_cards is the application's: what becomes of it is said where add_site
\* is called.
AddSiteLock(url) ==
    /\ caller.pc = "idle"
    /\ CallerCanEnter
    /\ IF IsNewSite(url)
       THEN /\ FreeThreads # {}
            /\ sites' = SitePut(url, SiteStatus(url))
            /\ lock' = {Main}
            /\ caller' = [ pc |-> "add_spawn", url |-> url ]
            /\ ret' = None
            /\ hist' = [ hist EXCEPT ![url].last = <<>>, ![url].kind = "none",
                                     ![url].published = FALSE ]
       ELSE /\ ret' = Return("add_site", url, TRUE)
            /\ UNCHANGED << sites, lock, caller, hist >>
    /\ UNCHANGED << previous_states, alerts, callbacks, alert_callbacks, running,
                    monitor_thread, threads, env >>

\* add_site: self.force_check(url); return self.sites[url]
AddSiteSpawn ==
    /\ caller.pc = "add_spawn"
    /\ threads' = [ threads EXCEPT ![FreshThread] = CheckThread(caller.url, "add_site") ]
    /\ hist' = [ hist EXCEPT ![caller.url].spawned = @ + 1 ]
    /\ ret' = Return("add_site", caller.url, FALSE)
    /\ lock' = {}
    /\ caller' = IdleCaller
    /\ UNCHANGED << sites, previous_states, alerts, callbacks, alert_callbacks,
                    running, monitor_thread, site_cards, env >>

\* remove_site without lines 183-184.
RemovePrev_Keep(url) == previous_states

\* remove_site, lines 183-184: what it does to _previous_states
RemovePrev(url) ==
    IF url \in DOMAIN previous_states THEN DictDel(previous_states, url)
    ELSE previous_states

\* remove_site(url): both deletions are made under the lock, and nothing reads
\* _previous_states without it.  site_cards is left to where it is called.
RemoveSite(url) ==
    /\ caller.pc = "idle"
    /\ CallerCanEnter
    /\ sites' = IF InSites(url) THEN DelSite(url) ELSE sites
    /\ previous_states' = RemovePrev(url)
    /\ hist' = [ hist EXCEPT ![url].spawned = 0 ]
    /\ ret' = None
    /\ UNCHANGED << alerts, callbacks, alert_callbacks, running, monitor_thread,
                    lock, threads, caller, env >>

\* _add_site without the return of line 304.
AppAccepts_Always(v) == TRUE

\* app.py, lines 302-304: is_valid
AppAccepts(v) == v.is_valid

\* The application's _add_site(url), app.py lines 289-339: validate_url, the
\* test for a card, the new card, monitor.add_site.  Only the caller's thread
\* reads or writes site_cards, so the card is made in the step in which
\* add_site gets the lock.
AppAddSite(raw) ==
    LET v   == validate_url(raw)
        url == UrlParse(v.result)
    IN  IF ~AppAccepts(v) \/ url \in site_cards
        THEN /\ caller.pc = "idle"
             /\ ret' = None
             /\ UNCHANGED << sites, previous_states, alerts, callbacks,
                             alert_callbacks, running, monitor_thread, lock,
                             threads, caller, site_cards, hist, env >>
        ELSE /\ site_cards' = site_cards \cup { url }
             /\ AddSiteLock(url)

\* The application's _remove_site(url), app.py lines 344-358
AppRemoveSite(url) ==
    IF url \in site_cards
    THEN /\ site_cards' = site_cards \ { url }
         /\ RemoveSite(url)
    ELSE /\ caller.pc = "idle"
         /\ ret' = None
         /\ UNCHANGED << sites, previous_states, alerts, callbacks,
                         alert_callbacks, running, monitor_thread, lock,
                         threads, caller, site_cards, hist, env >>

\* force_check(url)
ForceCheck(url) ==
    /\ caller.pc = "idle"
    /\ FreeThreads # {}
    /\ threads' = [ threads EXCEPT ![FreshThread] = CheckThread(url, "force_check") ]
    /\ ret' = None
    /\ UNCHANGED << sites, previous_states, alerts, callbacks, alert_callbacks,
                    running, monitor_thread, lock, caller, hist, site_cards, env >>

\* start_monitoring without the test of line 465.
AlreadyRunning_Never == FALSE

\* start_monitoring, line 465: already running
AlreadyRunning == running

\* start_monitoring
StartMonitoring ==
    /\ caller.pc = "idle"
    /\ IF AlreadyRunning
       THEN UNCHANGED << running, monitor_thread, threads >>
       ELSE /\ FreeThreads # {}
            /\ Cardinality(Workers) < env.monitors
            /\ running' = TRUE
            /\ monitor_thread' = { FreshThread }
            /\ threads' = [ threads EXCEPT ![FreshThread] = MonitorThread ]
    /\ ret' = None
    /\ UNCHANGED << sites, previous_states, alerts, callbacks, alert_callbacks,
                    lock, caller, hist, site_cards, env >>

\* stop_monitoring, line 485: the value it gives the flag
StopFlagValue == FALSE

\* stop_monitoring up to the join
StopMonitoring ==
    /\ caller.pc = "idle"
    /\ running' = StopFlagValue
    /\ IF \E t \in monitor_thread : IsAlive(t)
       THEN /\ caller' = [ pc |-> "join", url |-> NoUrl ]
            /\ UNCHANGED monitor_thread
       ELSE /\ monitor_thread' = {}
            /\ UNCHANGED caller
    /\ ret' = None
    /\ UNCHANGED << sites, previous_states, alerts, callbacks, alert_callbacks,
                    lock, threads, hist, site_cards, env >>

\* join() with no timeout: it returns when the worker is dead.
JoinReturns_NoTimeout == \A t \in monitor_thread : ~IsAlive(t)

\* line 490, join(timeout=5.0): it returns when the worker is dead or when the
\* 5 s are over, which they may be at any moment
JoinReturns == (\A t \in monitor_thread : ~IsAlive(t)) \/ TRUE

\* stop_monitoring: join(timeout=5.0) returns, the worker dead or the time up
StopJoin ==
    /\ caller.pc = "join"
    /\ JoinReturns
    /\ monitor_thread' = {}
    /\ caller' = IdleCaller
    /\ ret' = None
    /\ UNCHANGED << sites, previous_states, alerts, callbacks, alert_callbacks,
                    running, lock, threads, hist, site_cards, env >>

\* is_running()
is_running == running

\* One element of the list get_all_sites returns: a reference to the
\* SiteStatus object that sites holds for ref, and, for the record, the fields
\* the object had when the call returned.
StatusRef(status) == [ ref |-> status.url, seen |-> status ]

\* What the holder of a reference reads from the object now.  The caller's
\* next call drops the list, so the object is still the one in sites.
Deref(r) == Site(r.ref)

\* get_all_sites(): list(self.sites.values()), made without the lock
GetAllSites ==
    /\ caller.pc = "idle"
    /\ env.reader
    /\ ret' = [ Return("get_all_sites", NoUrl, FALSE) EXCEPT
                  !.val = [ i \in 1..Len(sites) |-> StatusRef(sites[i]) ] ]
    /\ UNCHANGED << sites, previous_states, alerts, callbacks, alert_callbacks,
                    running, monitor_thread, lock, threads, caller, hist, site_cards, env >>

\* get_alerts without reversed().
get_alerts_OldestFirst == alerts

\* get_alerts(): list(reversed(self._alerts))
get_alerts == [ i \in 1..Len(alerts) |-> alerts[Len(alerts) + 1 - i] ]

\* clear_alerts()
ClearAlerts ==
    /\ caller.pc = "idle"
    /\ alerts # <<>>
    /\ alerts' = <<>>
    /\ ret' = None
    /\ UNCHANGED << sites, previous_states, callbacks, alert_callbacks, running,
                    monitor_thread, lock, threads, caller, hist, site_cards, env >>

\* The functions the application registers as callbacks.
MaxCallbacks == 2

Observers == 1..MaxCallbacks

\* The elements of a list.
Range(list) == { list[i] : i \in 1..Len(list) }

\* list.remove(x): the first occurrence goes
ListRemove(list, x) ==
    LET at == Smallest({ i \in 1..Len(list) : list[i] = x })
    IN  SubSeq(list, 1, at - 1) \o SubSeq(list, at + 1, Len(list))

\* add_callback(callback): the application registers its callbacks when it
\* starts, before any other call; a caller that unsubscribes may subscribe
\* again
AddCallback(cb) ==
    /\ \/ caller.pc = "boot" /\ cb = Len(callbacks) + 1 /\ cb <= env.observers
       \/ caller.pc = "idle" /\ env.unsubscribe /\ cb <= env.observers
                             /\ cb \notin Range(callbacks)
    /\ callbacks' = Append(callbacks, cb)
    /\ ret' = None
    /\ UNCHANGED << sites, previous_states, alerts, alert_callbacks, running,
                    monitor_thread, lock, threads, caller, hist, site_cards, env >>

\* remove_callback(callback)
RemoveCallback(cb) ==
    /\ caller.pc = "idle"
    /\ env.unsubscribe
    /\ cb <= env.observers
    /\ callbacks' = IF cb \in Range(callbacks) THEN ListRemove(callbacks, cb)
                    ELSE callbacks
    /\ ret' = None
    /\ UNCHANGED << sites, previous_states, alerts, alert_callbacks, running,
                    monitor_thread, lock, threads, caller, hist, site_cards, env >>

\* add_alert_callback(callback)
AddAlertCallback(cb) ==
    /\ caller.pc = "boot"
    /\ Len(callbacks) = env.observers
    /\ cb = Len(alert_callbacks) + 1
    /\ alert_callbacks' = Append(alert_callbacks, cb)
    /\ caller' = IF cb = env.observers THEN IdleCaller ELSE caller
    /\ ret' = None
    /\ UNCHANGED << sites, previous_states, alerts, callbacks, running,
                    monitor_thread, lock, threads, hist, site_cards, env >>

\* ------------------------------------------------------- _check_site
\* _check_site returns: a one-off thread ends, the periodic worker goes on
\* with the for loop of check_all_sites.
Finished(t) ==
    IF threads[t].origin = "start_monitoring"
    THEN [ IdleThread EXCEPT !.pc = "iter", !.origin = "start_monitoring",
                             !.urls = threads[t].urls, !.idx = threads[t].idx ]
    ELSE IdleThread

\* _check_site without the test of line 353.
UrlNotInSites_Never(t) == FALSE

\* _check_site with `return` as its first statement.
UrlNotInSites_Always(t) == TRUE

\* line 353: if url not in self.sites, read without the lock
UrlNotInSites(t) == ~InSites(threads[t].url)

\* lines 353-354: the test at the entry and its return
CheckEntry(t) ==
    /\ threads[t].pc = "check"
    /\ threads' = [ threads EXCEPT ![t] =
                      IF UrlNotInSites(t) THEN Finished(t)
                      ELSE [ @ EXCEPT !.pc = "probe" ] ]
    /\ UNCHANGED << sites, previous_states, alerts, callbacks, alert_callbacks,
                    running, monitor_thread, lock, caller, ret, hist, site_cards, env >>

\* The probes moved inside `with self._lock`.
Probe_Locked(t, http, tcp) ==
    /\ threads[t].pc = "probe"
    /\ lock = {}
    /\ lock' = {t}
    /\ threads' = [ threads EXCEPT ![t] =
                      [ @ EXCEPT !.pc = "apply",
                                 !.res = check_http_status(http),
                                 !.port_open = tcp ] ]
    /\ UNCHANGED << sites, previous_states, alerts, callbacks, alert_callbacks,
                    running, monitor_thread, caller, ret, hist, site_cards, env >>

\* check_http_status without its except clauses: a failed request raises.
ProbeRaises_OnError(res) == res.status_code = -1

\* lines 240-258, 311-317 and 336: every exception of a probe is caught and
\* turned into a result, none reaches _check_site
ProbeRaises(res) == FALSE

\* line 365 without `if host else False`.
TcpSkipped_Never(host) == FALSE

\* line 365: check_port is not called when the host is empty
TcpSkipped(host) == host = <<>>

\* lines 357-365: host and port, the HTTP request, the TCP connect; an
\* exception would end the thread
Probe(t, http, tcp) ==
    /\ threads[t].pc = "probe"
    /\ threads' = [ threads EXCEPT ![t] =
                      IF ProbeRaises(check_http_status(http)) THEN IdleThread
                      ELSE
                      [ @ EXCEPT !.pc = "acquire",
                                 !.res = check_http_status(http),
                                 !.port_open =
                                     IF TcpSkipped(GetHostAndPort(threads[t].url)[1])
                                     THEN FALSE ELSE tcp ] ]
    /\ UNCHANGED << sites, previous_states, alerts, callbacks, alert_callbacks,
                    running, monitor_thread, lock, caller, ret, hist, site_cards, env >>

\* _check_site without `with self._lock`.
CanEnter_Unlocked(t) == TRUE

\* A _check_site that gives up its result when monitoring is stopped.
CanEnter_WhileRunning(t) == lock = {} /\ running

\* line 368: with self._lock blocks while another thread holds the lock
CanEnter(t) == lock = {}

\* line 368: with self._lock
Acquire(t) ==
    /\ threads[t].pc = "acquire"
    /\ CanEnter(t)
    /\ Room
    /\ lock' = {t}
    /\ threads' = [ threads EXCEPT ![t].pc = "apply" ]
    /\ UNCHANGED << sites, previous_states, alerts, callbacks, alert_callbacks,
                    running, monitor_thread, caller, ret, hist, site_cards, env >>

\* An apply step that stores the result whether the url is registered or
\* not: self.sites.setdefault(url, SiteStatus(url=url)) in the place of the
\* test of line 369.
ApplyCode_Recreate(t) ==
    /\ threads[t].pc = "apply"
    /\ sites' = SitePut(threads[t].url,
                        [ (IF InSites(threads[t].url) THEN Site(threads[t].url)
                           ELSE SiteStatus(threads[t].url)) EXCEPT
                            !.status_code = threads[t].res.status_code,
                            !.latency_ms = threads[t].res.latency_ms ])
    /\ threads' = [ threads EXCEPT ![t].pc = "apply2" ]
    /\ UNCHANGED << previous_states, alerts, callbacks, alert_callbacks, running,
                    monitor_thread, lock, caller, ret, site_cards, hist, env >>

\* lines 369-372: the locked test, then status_code and latency_ms
ApplyCode(t) ==
    /\ threads[t].pc = "apply"
    /\ IF InSites(threads[t].url)
       THEN /\ sites' = SitePut(threads[t].url,
                                [ Site(threads[t].url) EXCEPT
                                    !.status_code = threads[t].res.status_code,
                                    !.latency_ms = threads[t].res.latency_ms ])
            /\ threads' = [ threads EXCEPT ![t].pc = "apply2" ]
            /\ UNCHANGED lock
       ELSE /\ threads' = [ threads EXCEPT ![t] = Finished(t) ]
            /\ lock' = {}
            /\ UNCHANGED sites
    /\ UNCHANGED << previous_states, alerts, callbacks, alert_callbacks, running,
                    monitor_thread, caller, ret, hist, site_cards, env >>

\* lines 376-380: is_online and the remaining fields
ApplyOnline(t) ==
    /\ threads[t].pc = "apply2"
    /\ sites' = SitePut(threads[t].url,
                        [ Site(threads[t].url) EXCEPT
                            !.is_online = IsOnline(threads[t].res.status_code),
                            !.port_open = threads[t].port_open,
                            !.port_checked = GetHostAndPort(threads[t].url)[2],
                            !.error_message = threads[t].res.error ])
    /\ threads' = [ threads EXCEPT ![t].pc = "detect" ]
    /\ UNCHANGED << previous_states, alerts, callbacks, alert_callbacks, running,
                    monitor_thread, lock, caller, ret, hist, site_cards, env >>

\* lines 384-405 and 408-416: compare with the previous state, append the alert
Detect(t) ==
    /\ threads[t].pc = "detect"
    /\ LET url           == threads[t].url
           was_online    == PrevGet(url)
           is_now_online == Site(url).is_online
           new           == DetectAlerts(url, was_online, is_now_online,
                                         threads[t].res.status_code,
                                         threads[t].res.error)
       IN  /\ alerts' = alerts \o new
           /\ hist' = [ hist EXCEPT ![url].last = << is_now_online >>,
                                    ![url].kind = IF new # <<>>
                                                  THEN new[Len(new)].alert_type
                                                  ELSE @ ]
           /\ threads' = [ threads EXCEPT ![t] =
                             [ @ EXCEPT !.is_now_online = is_now_online,
                                        !.alert = new,
                                        !.ci = 0,
                                        !.pc = IF new # <<>> THEN "notify_alert"
                                               ELSE "set_prev" ] ]
    /\ UNCHANGED << sites, previous_states, callbacks, alert_callbacks, running,
                    monitor_thread, lock, caller, ret, site_cards, env >>

\* What a callback does when it is called.
CallbackOutcomes == { "returns", "raises" }

\* What a callback may do in the place of returning or raising: call
\* add_site or remove_site of the monitor that called it.
ReentrantOutcomes == { "calls_add_site", "calls_remove_site" }

\* Where the callback stands when it has made that call: at the
\* `with self._lock` of add_site (line 169) or of remove_site (line 181).
WithLockOf(outcome) ==
    IF outcome = "calls_add_site" THEN "add_site" ELSE "remove_site"

\* threading.Lock (line 112) is not reentrant: acquire() returns when no
\* thread holds the lock, the calling thread included.
ObserverCanEnter(t) == lock = {}

\* The for loop without try/except: an exception ends it.
AfterCallback_Propagate(outcome, ci, list) ==
    IF outcome = "raises" THEN Len(list) ELSE ci + 1

\* The try/except around a callback: where the for loop goes on.
AfterCallback(outcome, ci, list) == ci + 1

\* lines 143-149, called at 406 and 417: one turn of the for loop
NotifyAlert(t, outcome) ==
    /\ threads[t].pc = "notify_alert"
    /\ threads[t].waits = ""
    /\ threads' = [ threads EXCEPT ![t] =
          IF threads[t].ci < Len(alert_callbacks)
          THEN IF outcome \in ReentrantOutcomes
               THEN [ @ EXCEPT !.waits = WithLockOf(outcome) ]
               ELSE [ @ EXCEPT !.calls = Append(@, [ cb |-> alert_callbacks[threads[t].ci + 1],
                                                      ev |-> "alert",
                                                      raised |-> outcome = "raises" ]),
                               !.ci = AfterCallback(outcome, threads[t].ci, alert_callbacks) ]
          ELSE [ @ EXCEPT !.pc = "set_prev", !.ci = 0 ] ]
    /\ UNCHANGED << sites, previous_states, alerts, callbacks, alert_callbacks,
                    running, monitor_thread, lock, caller, ret, hist, site_cards, env >>

\* Line 420 moved into the two branches that append an alert.
SetPrev_OnAlert(t) ==
    /\ threads[t].pc = "set_prev"
    /\ previous_states' =
          IF threads[t].alert # <<>>
          THEN DictPut(previous_states, threads[t].url, threads[t].is_now_online)
          ELSE previous_states
    /\ threads' = [ threads EXCEPT ![t].pc = "notify", ![t].ci = 0,
                                   ![t].reg = callbacks ]
    /\ UNCHANGED << sites, alerts, callbacks, alert_callbacks, running,
                    monitor_thread, lock, caller, ret, site_cards, hist, env >>

\* line 420: self._previous_states[url] = is_now_online
SetPrev(t) ==
    /\ threads[t].pc = "set_prev"
    /\ previous_states' = DictPut(previous_states, threads[t].url,
                                  threads[t].is_now_online)
    /\ threads' = [ threads EXCEPT ![t].pc = "notify", ![t].ci = 0,
                                   ![t].reg = callbacks ]
    /\ UNCHANGED << sites, alerts, callbacks, alert_callbacks, running,
                    monitor_thread, lock, caller, ret, hist, site_cards, env >>

\* lines 130-137, called at 423: one turn of the for loop; then the lock is
\* released and _check_site returns
NotifyStatus(t, outcome) ==
    /\ threads[t].pc = "notify"
    /\ threads[t].waits = ""
    /\ IF threads[t].ci < Len(callbacks)
       THEN /\ threads' = [ threads EXCEPT ![t] =
                  IF outcome \in ReentrantOutcomes
                  THEN [ @ EXCEPT !.waits = WithLockOf(outcome) ]
                  ELSE [ @ EXCEPT !.calls = Append(@, [ cb |-> callbacks[threads[t].ci + 1],
                                                        ev |-> "status",
                                                        raised |-> outcome = "raises" ]),
                                  !.ci = AfterCallback(outcome, threads[t].ci, callbacks) ] ]
            /\ UNCHANGED << lock, hist >>
       ELSE /\ threads' = [ threads EXCEPT ![t] = Finished(t) ]
            /\ hist' = [ hist EXCEPT ![threads[t].url].published = TRUE ]
            /\ lock' = {}
    /\ UNCHANGED << sites, previous_states, alerts, callbacks, alert_callbacks,
                    running, monitor_thread, caller, ret, site_cards, env >>

\* ------------------------------------- _monitor_loop and check_all_sites
\* line 448: while self._running
LoopTest(t) ==
    /\ threads[t].pc = "loop"
    /\ threads' = [ threads EXCEPT ![t] =
                      IF running THEN [ @ EXCEPT !.pc = "snapshot" ] ELSE IdleThread ]
    /\ UNCHANGED << sites, previous_states, alerts, callbacks, alert_callbacks,
                    running, monitor_thread, lock, caller, ret, hist, site_cards, env >>

\* line 427: urls = list(self.sites.keys())
Snapshot(t) ==
    /\ threads[t].pc = "snapshot"
    /\ threads' = [ threads EXCEPT ![t] =
                      [ @ EXCEPT !.pc = "iter", !.urls = KeyList, !.idx = 0 ] ]
    /\ UNCHANGED << sites, previous_states, alerts, callbacks, alert_callbacks,
                    running, monitor_thread, lock, caller, ret, hist, site_cards, env >>

\* A for loop over self.sites itself.
CycleUrls_Live(t) == KeyList

\* line 428: `for url in urls`, the list made at line 427
CycleUrls(t) == threads[t].urls

\* lines 428-431: one turn of the for loop; line 459 when it is over
Iterate(t) ==
    /\ threads[t].pc = "iter"
    /\ IF threads[t].idx < Len(CycleUrls(t)) /\ running
       THEN threads' = [ threads EXCEPT ![t] =
                              [ @ EXCEPT !.pc = "check",
                                         !.url = CycleUrls(t)[threads[t].idx + 1],
                                         !.idx = @ + 1 ] ]
       ELSE threads' = [ threads EXCEPT ![t] =
                           [ @ EXCEPT !.pc = "wait", !.urls = <<>>, !.idx = 0,
                                      !.ticks = 0 ] ]
    /\ UNCHANGED << sites, previous_states, alerts, callbacks, alert_callbacks,
                    running, monitor_thread, lock, caller, ret, hist, site_cards, env >>

\* time.sleep(self.check_interval) in the place of the loop of lines 460-461.
WaitGoesOn_Sleep(t) == threads[t].ticks < IntervalTicks

\* line 460: while self._running and (time.time() - start_wait) < self.check_interval
WaitGoesOn(t) == running /\ threads[t].ticks < IntervalTicks

\* lines 460-461: test the flag and the elapsed time, sleep 0.5 s
Wait(t) ==
    /\ threads[t].pc = "wait"
    /\ threads' = [ threads EXCEPT ![t] =
                      IF WaitGoesOn(t)
                      THEN [ @ EXCEPT !.ticks = @ + 1 ]
                      ELSE [ @ EXCEPT !.pc = "loop", !.ticks = 0 ] ]
    /\ UNCHANGED << sites, previous_states, alerts, callbacks, alert_callbacks,
                    running, monitor_thread, lock, caller, ret, hist, site_cards, env >>

\* --------------------------------------------------------- specification
\* The worlds of Spec: the endpoints the user enters (urls), the Thread
\* objects that can be alive at a time (threads) and those of them that can be
\* periodic workers (monitors), what requests.get (http) and the TCP connect
\* (tcp) do, and the length at which the user clears the alert log (log).
\* One observer of each kind that returns, none unsubscribed, and add_site and
\* remove_site called as they are (no texts typed into the application),
\* unless the world says otherwise.
World(urls, nthreads, nmonitors, http, tcp, log) ==
    [ urls |-> urls, threads |-> nthreads, monitors |-> nmonitors,
      http |-> http, tcp |-> tcp, log |-> log,
      observers |-> 1, outcomes |-> { "returns" }, unsubscribe |-> FALSE,
      reader |-> FALSE, inputs |-> {} ]

UpOrTimeout == { Response(200), Raises("ReadTimeout", "") }

\* One endpoint that goes up and down, checked by one-off threads and by the
\* periodic worker.
Periodic == World({ UrlTable[1] }, MaxThreads, 1, UpOrTimeout, { TRUE }, 1)

\* The same endpoint with room for a second periodic worker.
Restart == World({ UrlTable[1] }, 2, 2, UpOrTimeout, { TRUE }, 1)

\* Several healthy endpoints, checked by one-off threads.
Sites == World(URLS, 2, 0, { Response(200) }, { TRUE }, 1)

\* Several healthy endpoints, checked by the periodic worker.
Cycle == World(URLS, 1, 1, { Response(200) }, { TRUE }, 1)

\* One endpoint that answers with the codes around the limits of the online
\* range, its port open or closed.

Boundary ==
    World({ UrlTable[1] }, 1, 1,
          { Response(199), Response(200), Response(399), Response(400),
            Raises("ReadTimeout", "") },
          BOOLEAN, MaxAlerts)

\* One endpoint and several observers, which may raise.
Observed ==
    [ World({ UrlTable[1] }, 1, 1, UpOrTimeout, { TRUE }, 1) EXCEPT
        !.observers = MaxCallbacks, !.outcomes = CallbackOutcomes ]

\* One endpoint and two observers, which the caller unsubscribes and
\* subscribes again.
Unsubscribed ==
    [ World({ UrlTable[1] }, 1, 1, UpOrTimeout, { TRUE }, 1) EXCEPT
        !.observers = 2, !.unsubscribe = TRUE ]

\* One endpoint and a caller that asks for the list of sites.
Reader ==
    [ World({ UrlTable[1] }, 1, 1, UpOrTimeout, { TRUE }, 1) EXCEPT
        !.reader = TRUE ]

\* What requests.get raises, one exception of each class that
\* check_http_status names and two that it does not: a ValueError with a
\* text and a MemoryError, whose str() is empty.
FailureClasses ==
    { Raises("ReadTimeout", ""), Raises("ConnectTimeout", ""),
      Raises("ConnectionError", ""), Raises("SSLError", ""),
      Raises("TooManyRedirects", ""), Raises("ValueError", "bad value"),
      Raises("MemoryError", "") }

\* One endpoint whose requests fail in every way, checked by one-off threads.
Failures ==
    World({ UrlTable[1] }, 1, 0, { Response(200) } \cup FailureClasses, { TRUE }, 1)

\* Endpoints with a port, with a port that is no number and with port 0,
\* their TCP port open or closed.
Ports ==
    World({ UrlTable[3], UrlTable[4], UrlTable[5] }, 1, 0, { Response(200) },
          BOOLEAN, 1)

\* Two healthy endpoints, added and removed while the periodic worker is in
\* its cycle.
Snapshots ==
    World({ UrlTable[1], UrlTable[2] }, 2, 1, { Response(200) }, { TRUE }, 1)

\* The urls the application registers for the texts of InputTable.
AppUrls ==
    { UrlParse(validate_url(InputTable[i]).result) :
        i \in { j \in 1..Len(InputTable) : validate_url(InputTable[j]).is_valid } }

\* The application: the user types texts into the dialog and deletes cards.
App ==
    [ World(AppUrls, 1, 0, { Response(200) }, { TRUE }, 1) EXCEPT
        !.inputs = Range(InputTable) ]

\* One endpoint that goes up and down and observers that call add_site or
\* remove_site from their callback.
Reentrant ==
    [ World({ UrlTable[1] }, 1, 0, UpOrTimeout, { TRUE }, 1) EXCEPT
        !.outcomes = { "returns" } \cup ReentrantOutcomes ]

\* Two endpoints that go up and down, checked by one-off threads.
Outage == World({ UrlTable[1], UrlTable[2] }, 1, 0, UpOrTimeout, { TRUE }, 1)

Worlds ==
    { Periodic, Restart, Sites, Cycle, Boundary, Observed, Unsubscribed, Reader,
      Failures, Ports, App, Snapshots, Reentrant, Outage }

\* One step of the caller.
CallerStep ==
    \/ \E url \in env.urls :
          env.inputs = {} /\ AddSiteLock(url) /\ UNCHANGED site_cards
    \/ \E raw \in env.inputs : AppAddSite(raw)
    \/ AddSiteSpawn
    \/ \E url \in env.urls :
          env.inputs = {} /\ RemoveSite(url) /\ UNCHANGED site_cards
    \/ \E url \in env.urls : env.inputs # {} /\ AppRemoveSite(url)
    \/ \E url \in env.urls : ForceCheck(url)
    \/ StartMonitoring
    \/ StopMonitoring
    \/ StopJoin
    \/ ClearAlerts
    \/ GetAllSites
    \/ \E cb \in Observers : AddCallback(cb)
    \/ \E cb \in Observers : RemoveCallback(cb)
    \/ \E cb \in Observers : AddAlertCallback(cb)

\* One step of thread t.
ThreadStep(t) ==
    \/ CheckEntry(t)
    \/ \E http \in env.http, tcp \in env.tcp : Probe(t, http, tcp)
    \/ Acquire(t)
    \/ ApplyCode(t)
    \/ ApplyOnline(t)
    \/ Detect(t)
    \/ \E outcome \in env.outcomes : NotifyAlert(t, outcome)
    \/ SetPrev(t)
    \/ \E outcome \in env.outcomes : NotifyStatus(t, outcome)
    \/ LoopTest(t)
    \/ Snapshot(t)
    \/ Iterate(t)
    \/ Wait(t)

Next ==
    \/ \E url \in env.urls :
          env.inputs = {} /\ AddSiteLock(url) /\ UNCHANGED site_cards
    \/ \E raw \in env.inputs : AppAddSite(raw)
    \/ AddSiteSpawn
    \/ \E url \in env.urls :
          env.inputs = {} /\ RemoveSite(url) /\ UNCHANGED site_cards
    \/ \E url \in env.urls : env.inputs # {} /\ AppRemoveSite(url)
    \/ \E url \in env.urls : ForceCheck(url)
    \/ StartMonitoring
    \/ StopMonitoring
    \/ StopJoin
    \/ ClearAlerts
    \/ GetAllSites
    \/ \E cb \in Observers : AddCallback(cb)
    \/ \E cb \in Observers : RemoveCallback(cb)
    \/ \E cb \in Observers : AddAlertCallback(cb)
    \/ \E t \in Threads : CheckEntry(t)
    \/ \E t \in Threads, http \in env.http, tcp \in env.tcp : Probe(t, http, tcp)
    \/ \E t \in Threads : Acquire(t)
    \/ \E t \in Threads : ApplyCode(t)
    \/ \E t \in Threads : ApplyOnline(t)
    \/ \E t \in Threads : Detect(t)
    \/ \E t \in Threads, outcome \in env.outcomes : NotifyAlert(t, outcome)
    \/ \E t \in Threads : SetPrev(t)
    \/ \E t \in Threads, outcome \in env.outcomes : NotifyStatus(t, outcome)
    \/ \E t \in Threads : LoopTest(t)
    \/ \E t \in Threads : Snapshot(t)
    \/ \E t \in Threads : Iterate(t)
    \/ \E t \in Threads : Wait(t)

Init == \E world \in Worlds : InitIn(world)

Spec == Init /\ [][Next]_vars

\* The worlds of FairSpec.
FairWorlds == { Restart, Unsubscribed, Reader, App }

SpecF == (\E world \in FairWorlds : InitIn(world)) /\ [][Next]_vars

\* The scheduler runs every thread that can run, a thread that waits for the
\* lock gets it, the caller returns from a call it is in (join has a timeout),
\* and the user clears the alert log again and again.
Fairness ==
    /\ \A t \in 1..Restart.threads :
          /\ WF_vars(t \in Threads /\ ThreadStep(t))
          /\ SF_vars(t \in Threads /\ Acquire(t))
    /\ WF_vars(AddSiteSpawn)
    /\ WF_vars(StopJoin)
    /\ SF_vars(ClearAlerts)

FairSpec == SpecF /\ Fairness

\* =================================================================
\* Properties
\* =================================================================

\* Thread t leaves the statement at pc in this step.
Leaves(t, pc) == threads[t].pc = pc /\ threads'[t].pc # pc

\* The alerts this step appends to the log.
Appended == SubSeq(alerts', Len(alerts) + 1, Len(alerts'))

\* How often the check of thread t has called callback cb for an event ev.
Calls(t, cb, ev) ==
    Cardinality({ k \in 1..Len(threads[t].calls) :
                    threads[t].calls[k].cb = cb /\ threads[t].calls[k].ev = ev })

\* How often x occurs in the sequence list.
Count(list, x) == Cardinality({ k \in 1..Len(list) : list[k] = x })

\* C1: whenever the lock is free, every SiteStatus of the registry has
\* is_online = (200 <= status_code < 400).
C1_OnlineIffCodeInRange ==
    lock = {} =>
        \A i \in 1..Len(sites) :
            sites[i].is_online <=>
                (sites[i].status_code >= 200 /\ sites[i].status_code < 400)

\* A check that got 399 has been applied and has left the lock.
C1_Witness ==
    /\ lock = {}
    /\ \E i \in 1..Len(sites) : sites[i].status_code = 399 /\ sites[i].is_online

\* C2: a check applied after another check of the same registration appends
\* exactly one alert when its online flag differs from the flag of the check
\* before it (recovered if it is online, down if not) and none when the flag
\* is the same; the alert is handed to every alert callback once; no check
\* appends more than one alert, and nothing but a check appends.
C2_DetectStep(t) ==
    Leaves(t, "detect") =>
        LET url    == threads[t].url
            before == hist[url].last
            now    == Site(url).is_online
        IN  /\ Len(Appended) <= 1
            /\ before # <<>> =>
                  IF before[1] # now
                  THEN /\ Len(Appended) = 1
                       /\ Appended[1].url = url
                       /\ Appended[1].alert_type = IF now THEN "recovered" ELSE "down"
                       /\ threads'[t].pc = "notify_alert"
                       /\ threads'[t].alert = Appended
                  ELSE Appended = <<>>

C2_Delivered(t) ==
    Leaves(t, "notify_alert") =>
        /\ threads[t].alert # <<>>
        /\ \A j \in 1..Len(alert_callbacks) :
              Calls(t, alert_callbacks[j], "alert")
                  = Count(alert_callbacks, alert_callbacks[j])

C2_OneAlertPerFlip ==
    [][ /\ \A t \in Threads : C2_DetectStep(t) /\ C2_Delivered(t)
        /\ Len(alerts') > Len(alerts) => \E t \in Threads : Leaves(t, "detect")
      ]_vars

\* A check that found the site back online has delivered its alert.
C2_Witness ==
    \E t \in Threads :
        /\ threads[t].pc = "set_prev"
        /\ threads[t].alert # <<>>
        /\ threads[t].alert[1].alert_type = "recovered"
        /\ threads[t].calls # <<>>
        /\ Len(threads[t].calls) = Len(alert_callbacks)

\* C3: the first check applied after a registration appends exactly one
\* down alert when it is offline and none when it is online, whichever thread
\* it is that comes first.
C3_FirstStep(t) ==
    (Leaves(t, "detect") /\ hist[threads[t].url].last = <<>>) =>
        IF Site(threads[t].url).is_online
        THEN Appended = <<>>
        ELSE /\ Len(Appended) = 1
             /\ Appended[1].url = threads[t].url
             /\ Appended[1].alert_type = "down"

C3_FirstCheckAlert == [][ \A t \in Threads : C3_FirstStep(t) ]_vars

\* The check of force_check was applied first and found the site down, while
\* the first-check thread of add_site has still to take the lock.
C3_Witness ==
    \E t1, t2 \in Threads :
        /\ threads[t1].origin = "add_site" /\ threads[t1].pc = "acquire"
        /\ threads[t2].origin = "force_check" /\ threads[t2].pc = "set_prev"
        /\ threads[t2].url = threads[t1].url
        /\ threads[t2].alert # <<>>
        /\ threads[t2].alert[1].alert_type = "down"

\* C4: at most one thread is between the write of the Status fields and the
\* write of PreviousState, and it holds the lock; within one registration the
\* alerts of an endpoint alternate, the first being down.
InApply(t) ==
    threads[t].pc \in { "apply", "apply2", "detect", "notify_alert", "set_prev",
                        "notify" }

C4_Exclusive ==
    \A t1 \in Threads :
        InApply(t1) => lock = {t1} /\ \A t2 \in Threads : InApply(t2) => t2 = t1

C4_Alternates(t) ==
    (Leaves(t, "detect") /\ Appended # <<>>) =>
        Appended[1].alert_type =
            IF hist[threads[t].url].kind = "down" THEN "recovered" ELSE "down"

C4_AtomicApply ==
    /\ []C4_Exclusive
    /\ [][ \A t \in Threads : C4_Alternates(t) ]_vars

\* One thread is in its apply step while another waits for the lock with a
\* result for the same endpoint, after a down alert for it.
C4_Witness ==
    \E t1, t2 \in Threads :
        /\ t1 # t2
        /\ InApply(t1)
        /\ threads[t2].pc = "acquire"
        /\ threads[t2].url = threads[t1].url
        /\ hist[threads[t1].url].kind = "down"
        /\ threads[t2].res.status_code = 200

\* C5: add_site of a registered url returns the SiteStatus that is there and
\* changes neither the registry, PreviousState, the alert log nor the threads;
\* a registered url has had exactly one first-check thread spawned.
C5_KnownUrlStep ==
    \A url \in env.urls :
        ( /\ caller.pc = "idle" /\ caller'.pc = "idle"
          /\ ret' # ret /\ ret'.op = "add_site" /\ ret'.url = url ) =>
            /\ InSites(url)
            /\ ret'.known
            /\ UNCHANGED << sites, previous_states, alerts, threads, hist >>

C5_OneFirstCheck ==
    \A url \in env.urls :
        /\ hist[url].spawned <= 1
        /\ (InSites(url) /\ ~(caller.pc = "add_spawn" /\ caller.url = url))
              => hist[url].spawned = 1

C5_AddSiteIdempotent == []C5_OneFirstCheck /\ [][C5_KnownUrlStep]_vars

\* add_site has returned the SiteStatus of a url it knew.
C5_Witness ==
    /\ ret.op = "add_site" /\ ret.known
    /\ InSites(ret.url)
    /\ Site(ret.url).status_code = 200
    /\ hist[ret.url].spawned = 1

\* C6: a url that is registered gets a check applied and handed to the status
\* callbacks unless it is removed first, with or without the periodic worker;
\* the first-check thread of add_site passes the test at the entry of
\* _check_site while the registration it was started for is there.
C6_NotDropped(t) ==
    ( /\ Leaves(t, "check")
      /\ threads[t].origin = "add_site"
      /\ hist[threads[t].url].spawned = 1 ) => threads'[t].pc = "probe"

C6_FirstCheckPublished ==
    /\ \A url \in Restart.urls :
          InSites(url) ~> (~InSites(url) \/ (url \in env.urls /\ hist[url].published))
    /\ [][ \A t \in Threads : C6_NotDropped(t) ]_vars

\* The first-check thread of add_site has called every status callback while
\* the periodic worker is not running.
C6_Witness ==
    \E t \in Threads :
        /\ threads[t].origin = "add_site"
        /\ threads[t].pc = "notify"
        /\ threads[t].ci = Len(callbacks)
        /\ threads[t].calls # <<>>
        /\ Workers = {}

\* C7: remove_site(url) leaves neither a SiteStatus nor a previous state of
\* url, touches no other url and changes nothing when url is absent; add_site
\* of an absent url stores a default SiteStatus; and until a check has been
\* applied to a registration there is no previous state of its url, so the
\* first one applied, from whatever thread, finds None.
C7_RemoveStep ==
    \A url \in env.urls :
        RemoveSite(url) =>
            /\ ~InSites(url)'
            /\ PrevGet(url)' = <<>>
            /\ ~InSites(url) => UNCHANGED << sites, previous_states >>
            /\ \A other \in env.urls \ {url} :
                  /\ InSites(other)' = InSites(other)
                  /\ InSites(other) => Site(other)' = Site(other)
                  /\ PrevGet(other)' = PrevGet(other)
            /\ UNCHANGED << alerts, threads, lock >>

C7_AddStep ==
    \A url \in env.urls :
        (AddSiteLock(url) /\ ~InSites(url)) =>
            /\ Site(url)' = SiteStatus(url)
            /\ PrevGet(url)' = <<>>

C7_FirstEver ==
    \A url \in env.urls :
        hist[url].last = <<>> => url \notin DOMAIN previous_states

C7_RemoveThenAddIsFirst ==
    /\ []C7_FirstEver
    /\ [][ C7_RemoveStep /\ C7_AddStep ]_vars

\* Two first-check threads of one url: the url was removed and registered
\* again while the older was in flight, and the older has now been applied to
\* the new registration as its first result, with a down alert.
C7_Witness ==
    \E t1, t2 \in Threads :
        /\ t1 # t2
        /\ threads[t1].origin = "add_site" /\ threads[t2].origin = "add_site"
        /\ threads[t1].url = threads[t2].url
        /\ threads[t1].pc \in { "check", "probe", "acquire" }
        /\ threads[t2].pc = "set_prev"
        /\ threads[t2].alert # <<>>
        /\ threads[t2].alert[1].alert_type = "down"

\* C8: every key of _previous_states is a key of sites.
C8_PrevKeysRegistered == DOMAIN previous_states \subseteq SiteKeys

\* A url that was checked has been removed, and another still has its
\* previous state.
C8_Witness ==
    \E u1, u2 \in env.urls :
        /\ u1 \in DOMAIN previous_states
        /\ ~InSites(u2)
        /\ hist[u2].last # <<>>

\* C9: a check of a url that is not in sites returns at its entry, and one
\* whose url went away during the probes returns at the locked test; neither
\* writes sites, _previous_states or the alert log or calls a callback.  Only
\* add_site and remove_site change the keys of sites, and a previous state is
\* only written for a key of sites.
C9_Entry(t) ==
    (Leaves(t, "check") /\ ~InSites(threads[t].url)) =>
        /\ threads'[t] = Finished(t)
        /\ threads[t].calls = <<>>
        /\ UNCHANGED << sites, previous_states, alerts, lock >>

C9_Locked(t) ==
    (Leaves(t, "apply") /\ ~InSites(threads[t].url)) =>
        /\ threads'[t] = Finished(t)
        /\ threads[t].calls = <<>>
        /\ lock' = {}
        /\ UNCHANGED << sites, previous_states, alerts >>

C9_Keys ==
    /\ SiteKeys' # SiteKeys =>
          \E url \in env.urls : AddSiteLock(url) \/ RemoveSite(url)
    /\ \A url \in env.urls :
          (PrevGet(url)' # <<>> /\ PrevGet(url) = <<>>) => InSites(url)

C9_Applying ==
    \A t \in Threads :
        ( \/ threads[t].pc \in { "apply2", "detect", "notify_alert", "set_prev",
                                 "notify" }
          \/ threads[t].calls # <<>> ) => InSites(threads[t].url)

C9_UnregisteredCheckIsNoOp ==
    /\ []C9_Applying
    /\ [][ /\ \A t \in Threads : C9_Entry(t) /\ C9_Locked(t)
           /\ C9_Keys ]_vars

\* force_check has started a thread for a url that was never registered.
C9_Witness ==
    \E t \in Threads :
        /\ threads[t].origin = "force_check"
        /\ threads[t].pc = "check"
        /\ ~InSites(threads[t].url)
        /\ hist[threads[t].url] = NoHistory

\* C10: start_monitoring while running changes nothing and starts no thread;
\* stop_monitoring while stopped leaves the flag false and every thread as it
\* was; the flag becomes true in start_monitoring only and false in
\* stop_monitoring only, and is true after the one and false after the other.
C10_Step ==
    /\ (StartMonitoring /\ is_running) =>
          UNCHANGED << sites, previous_states, alerts, callbacks, alert_callbacks,
                       running, monitor_thread, lock, threads, caller, hist >>
    /\ (StopMonitoring /\ ~is_running) =>
          /\ ~is_running'
          /\ UNCHANGED << sites, previous_states, alerts, callbacks,
                          alert_callbacks, lock, threads, hist >>
    /\ StartMonitoring => is_running'
    /\ StopMonitoring => ~is_running'
    /\ (is_running' /\ ~is_running) => StartMonitoring
    /\ (is_running /\ ~is_running') => StopMonitoring

C10_StartStopIdempotent == [][C10_Step]_vars

\* stop_monitoring has returned after a start_monitoring: the flag is false
\* and the worker it could not join is still alive.
C10_Witness ==
    /\ ~is_running
    /\ caller.pc = "idle"
    /\ monitor_thread = {}
    /\ Workers # {}

\* C11: at most one thread runs _monitor_loop at any time.
C11_OneWorker == Cardinality(Workers) <= 1

\* C12: stop_monitoring clears the flag, and once it waits in join it can
\* return whatever the worker is doing, and does.
C12_StopStep == StopMonitoring => ~is_running'

C12_JoinCanReturn == caller.pc = "join" => ENABLED StopJoin

C12_StopReturns ==
    /\ []C12_JoinCanReturn
    /\ [][C12_StopStep]_vars
    /\ (caller.pc = "join") ~> (caller.pc = "idle")

\* stop_monitoring has returned while the worker it waited for holds the
\* lock for a callback.
C12_Witness ==
    /\ caller.pc = "idle"
    /\ ~is_running
    /\ monitor_thread = {}
    /\ \E t \in Workers : threads[t].pc = "notify" /\ lock = {t}

\* C13: once the flag is cleared and stays so, every periodic worker ends; a
\* worker that reads the cleared flag leaves the for loop of check_all_sites
\* without another check, leaves the wait loop at its next test whatever the
\* interval, and leaves _monitor_loop.
C13_WorkerStep(t) ==
    (threads[t].origin = "start_monitoring" /\ ~is_running) =>
        /\ Leaves(t, "iter") => threads'[t].pc = "wait"
        /\ (threads[t].pc = "wait" /\ threads'[t] # threads[t]) =>
              threads'[t].pc = "loop"
        /\ Leaves(t, "loop") => threads'[t] = IdleThread

C13_WorkerStops ==
    /\ \A t \in 1..Restart.threads :
          (t \in Threads /\ threads[t].origin = "start_monitoring" /\ ~is_running)
              ~> (t \in Threads /\ (is_running \/ threads[t].origin # "start_monitoring"))
    /\ [][ \A t \in Threads : C13_WorkerStep(t) ]_vars

\* A worker sleeps between two cycles with the interval not yet over, and the
\* flag is cleared.
C13_Witness ==
    \E t \in Workers :
        /\ threads[t].pc = "wait"
        /\ threads[t].ticks < IntervalTicks
        /\ ~is_running
        /\ caller.pc = "idle"

\* C14: after a callback has raised, the for loop goes on with the next
\* callback of the list; the check still goes from the alert callbacks to the
\* write of _previous_states and to the status callbacks, and when it is over
\* the periodic worker goes on with its cycle.
Raised(t) == \E k \in 1..Len(threads[t].calls) : threads[t].calls[k].raised

C14_RaisingStep(t) ==
    ( /\ Len(threads'[t].calls) = Len(threads[t].calls) + 1
      /\ threads'[t].calls[Len(threads'[t].calls)].raised ) =>
        /\ threads'[t].ci = threads[t].ci + 1
        /\ threads'[t].pc = threads[t].pc
        /\ UNCHANGED lock

C14_GoesOn(t) ==
    Raised(t) =>
        /\ Leaves(t, "notify_alert") => threads'[t].pc = "set_prev"
        /\ Leaves(t, "set_prev") =>
              /\ threads'[t].pc = "notify"
              /\ PrevGet(threads[t].url)' = << threads[t].is_now_online >>
        /\ Leaves(t, "notify") =>
              /\ threads'[t] = Finished(t)
              /\ threads[t].origin = "start_monitoring" => threads'[t].pc = "iter"

C14_ObserverFailureContained ==
    [][ \A t \in Threads : C14_RaisingStep(t) /\ C14_GoesOn(t) ]_vars

\* The periodic worker has called two status callbacks, the first of which
\* raised, after an alert callback that raised.
C14_Witness ==
    \E t \in Workers :
        /\ threads[t].pc = "notify"
        /\ Len(threads[t].calls) >= 3
        /\ threads[t].calls[1].ev = "alert" /\ threads[t].calls[1].raised
        /\ \E k \in 2..(Len(threads[t].calls) - 1) :
              /\ threads[t].calls[k].ev = "status"
              /\ threads[t].calls[k].raised
              /\ threads[t].calls[k + 1].ev = "status"
              /\ threads[t].calls[k + 1].cb # threads[t].calls[k].cb

\* C15: when the status loop of a check is over, every observer that was in
\* self._callbacks when it began (and is still there) has been called exactly
\* once by it.
C15_AllInvokedOnce ==
    \A t \in Threads :
        (threads[t].pc = "notify" /\ threads[t].ci >= Len(callbacks)) =>
            \A cb \in Range(threads[t].reg) \cap Range(callbacks) :
                Calls(t, cb, "status") = 1

\* C16: the SiteStatus entries of a list get_all_sites returned keep the
\* field values they had when the call returned.
C16_PointInTimeCopy ==
    ret.op = "get_all_sites" =>
        \A i \in 1..Len(ret.val) : Deref(ret.val[i]) = ret.val[i].seen

\* C17: no thread that is ready to take the lock finds it held by a thread
\* that is calling its callbacks.
InCallback(t) ==
    \/ threads[t].pc = "notify_alert" /\ threads[t].ci < Len(alert_callbacks)
    \/ threads[t].pc = "notify" /\ threads[t].ci < Len(callbacks)

C17_NoWaitForCallbacks ==
    \A t1, t2 \in Threads :
        ~( /\ t1 # t2
           /\ threads[t1].pc = "acquire"
           /\ lock = {t2}
           /\ InCallback(t2) )

\* C18: a thread that has not reached line 368 does not hold the lock, its
\* probes can run whoever holds the lock and leave the lock alone; add_site and
\* force_check return with the new thread at the entry of _check_site, and
\* force_check does not need the lock.
C18_ProbeUnlocked ==
    \A t \in Threads :
        /\ threads[t].pc \in { "check", "probe", "acquire" } => lock # {t}
        /\ threads[t].pc = "probe" =>
              ENABLED (\E http \in env.http, tcp \in env.tcp : Probe(t, http, tcp))

C18_ProbeStep(t) == Leaves(t, "probe") => (lock # {t} /\ UNCHANGED lock)

C18_SpawnStep ==
    \A url \in env.urls :
        (AddSiteSpawn \/ ForceCheck(url)) =>
            /\ caller'.pc = "idle"
            /\ \E t \in Threads :
                  /\ ~IsAlive(t)
                  /\ threads'[t].pc = "check"
                  /\ threads'[t].res = NoResult

C18_ForceCheckFree ==
    (caller.pc = "idle" /\ FreeThreads # {}) =>
        \A url \in env.urls : ENABLED ForceCheck(url)

C18_NoProbeUnderLock ==
    /\ [](C18_ProbeUnlocked /\ C18_ForceCheckFree)
    /\ [][ C18_SpawnStep /\ \A t \in Threads : C18_ProbeStep(t) ]_vars

\* The periodic worker and a thread of force_check are in their probes of the
\* same endpoint at the same time.
C18_Witness ==
    \E t1, t2 \in Threads :
        /\ threads[t1].origin = "start_monitoring" /\ threads[t1].pc = "probe"
        /\ threads[t2].origin = "force_check" /\ threads[t2].pc = "probe"
        /\ threads[t1].url = threads[t2].url

\* C19: a check that is in its probes is applied and goes through the status
\* callbacks, or finds at line 369 that its url is gone, whatever becomes of
\* the flag; between the probes and the end of the callbacks no step of a
\* check waits for anything but the lock.
Published(t) == threads[t].pc = "notify" /\ threads[t].ci >= Len(callbacks)

Dropped(t) == threads[t].pc = "apply" /\ ~InSites(threads[t].url)

C19_NotCancelled ==
    \A t \in Threads :
        threads[t].pc \in { "probe", "apply", "apply2", "detect", "notify_alert",
                            "set_prev", "notify" } => ENABLED ThreadStep(t)

C19_ChecksComplete ==
    /\ []C19_NotCancelled
    /\ \A t \in 1..Restart.threads :
          (t \in Threads /\ threads[t].pc = "probe")
              ~> (t \in Threads /\ (Published(t) \/ Dropped(t)))

\* After stop_monitoring the periodic worker publishes the check it had begun
\* and a one-off check waits with its result for the lock.
C19_Witness ==
    \E t1, t2 \in Threads :
        /\ ~is_running
        /\ threads[t1].origin = "start_monitoring" /\ Published(t1)
        /\ threads[t1].calls # <<>>
        /\ threads[t2].origin = "force_check" /\ threads[t2].pc = "acquire"

C21_ReadsAll ==
    /\ Len(get_alerts) = Len(alerts)
    /\ \A i \in 1..Len(alerts) : \E j \in 1..Len(alerts) : get_alerts[i] = alerts[j]

C21_LogStep ==
    /\ ClearAlerts =>
          /\ alerts' = <<>>
          /\ get_alerts' = <<>>
          /\ UNCHANGED << sites, previous_states >>
    /\ alerts' # alerts =>
          \/ ClearAlerts
          \/ /\ Len(alerts') = Len(alerts) + 1
             /\ SubSeq(alerts', 1, Len(alerts)) = alerts
             /\ \E t \in Threads : Leaves(t, "detect") /\ threads'[t].alert = Appended
             /\ get_alerts' = Appended \o get_alerts

C21_AppendOnlyNewestFirst == []C21_ReadsAll /\ [][C21_LogStep]_vars

\* The log holds a down alert and, emitted after it, a recovered alert, and
\* get_alerts returns the recovered alert first.
C21_Witness ==
    /\ Len(alerts) = 2
    /\ alerts[1].alert_type = "down" /\ alerts[2].alert_type = "recovered"
    /\ get_alerts = << alerts[2], alerts[1] >>

\* C22: the alert a check appends is given by the previous state of its url,
\* its online flag, its status code and its error: previous None and offline,
\* a down alert with the error or "Site is unreachable (HTTP code)"; previous
\* True and offline, a down alert with the error or "Site is down (HTTP
\* code)"; previous False and online, a recovered alert with "Site is back
\* online (HTTP code)"; no alert otherwise.  Its status_code is that of the
\* check.
C22_Message(error, text, code) ==
    IF error # "" THEN error ELSE text \o ToString(code) \o ")"

C22_Rule(t) ==
    Leaves(t, "detect") =>
        LET url      == threads[t].url
            previous == PrevGet(url)
            online   == Site(url).is_online
            code     == threads[t].res.status_code
            error    == threads[t].res.error
        IN  Appended =
              CASE previous = <<>> /\ ~online ->
                     << [ url |-> url, alert_type |-> "down",
                          message |-> C22_Message(error, "Site is unreachable (HTTP ", code),
                          status_code |-> code ] >>
                [] previous = << TRUE >> /\ ~online ->
                     << [ url |-> url, alert_type |-> "down",
                          message |-> C22_Message(error, "Site is down (HTTP ", code),
                          status_code |-> code ] >>
                [] previous = << FALSE >> /\ online ->
                     << [ url |-> url, alert_type |-> "recovered",
                          message |-> C22_Message("", "Site is back online (HTTP ", code),
                          status_code |-> code ] >>
                [] OTHER -> <<>>

C22_AlertIsFunctionOfCheck == [][ \A t \in Threads : C22_Rule(t) ]_vars

\* The log holds the alert of an answer 400 after the site was online, with
\* the text as its message, and the alert of the answer 399 after it.
C22_Witness ==
    /\ Len(alerts) = 2
    /\ alerts[1].message = "Site is down (HTTP 400)"
    /\ alerts[1].status_code = 400
    /\ alerts[2].message = "Site is back online (HTTP 399)"
    /\ alerts[2].alert_type = "recovered"

\* C23: check_http_status returns (-1, -1, message) with the message of the
\* class of the failure: "Connection timeout" for a timeout, "Connection
\* failed" for a connection failure, "SSL certificate error" for an SSLError,
\* "Too many redirects" for a redirect loop, str(error) for any other.
C23_Message(http) ==
    CASE http.exc \in { "ReadTimeout", "ConnectTimeout" } -> "Connection timeout"
      [] http.exc = "ConnectionError"  -> "Connection failed"
      [] http.exc = "SSLError"         -> "SSL certificate error"
      [] http.exc = "TooManyRedirects" -> "Too many redirects"
      [] OTHER                         -> http.msg

C23_EachClassItsMessage ==
    [][ \A t \in Threads, http \in env.http, tcp \in env.tcp :
          (Probe(t, http, tcp) /\ http.kind = "raise") =>
              threads'[t].res = ProbeResult(-1, -1, C23_Message(http)) ]_vars

\* C24: when no check is being applied, a SiteStatus whose last check failed
\* is offline with status_code -1, latency_ms -1 and an error_message that is
\* not empty, and one whose last check got a response has an empty
\* error_message.
C24_FailedHasMessage ==
    lock = {} =>
        \A i \in 1..Len(sites) :
            hist[sites[i].url].last # <<>> =>
                IF sites[i].status_code = -1
                THEN /\ ~sites[i].is_online
                     /\ sites[i].latency_ms = -1
                     /\ sites[i].error_message # ""
                ELSE sites[i].error_message = ""

\* C27: the port a check writes to port_checked is the explicit port of the
\* url when it has one, 443 or 80 by its scheme when it has none, and 443
\* when the url cannot be parsed; the host is the netloc without the port,
\* and empty when the url cannot be parsed.
C27_HostPort(url) ==
    LET p == ParsedPort(url.netloc)
    IN  CASE p.kind = "ValueError" -> << <<>>, 443 >>
          [] p.kind = "int"        -> << HostOf(url.netloc), p.val >>
          [] OTHER -> << HostOf(url.netloc),
                         IF url.scheme = "https" THEN 443 ELSE 80 >>

C27_ExplicitPortOrDefault ==
    lock = {} =>
        \A i \in 1..Len(sites) :
            hist[sites[i].url].last # <<>> =>
                /\ GetHostAndPort(sites[i].url) = C27_HostPort(sites[i].url)
                /\ sites[i].port_checked = C27_HostPort(sites[i].url)[2]

\* C29: a check has no result before its probes and holds no lock during
\* them; it has the result of its probes, unapplied, while it waits for the
\* lock; it writes the result to sites under the lock; it calls the status
\* callbacks last, under the lock and with the result written, so that no
\* status is published that was not applied; every applied check calls each
\* status callback once, whether or not an alert was appended; and the port of
\* a url whose host is empty is reported closed without a TCP connect.
C29_Sequence(t) ==
    /\ threads[t].pc \in { "check", "probe" } =>
          threads[t].res = NoResult /\ threads[t].calls = <<>> /\ lock # {t}
    /\ threads[t].pc = "acquire" =>
          threads[t].res # NoResult /\ threads[t].calls = <<>> /\ lock # {t}
    /\ InApply(t) => threads[t].res # NoResult /\ lock = {t}
    /\ threads[t].pc \in { "apply", "apply2", "detect" } => threads[t].calls = <<>>
    /\ threads[t].pc \in { "notify_alert", "set_prev" } =>
          \A k \in 1..Len(threads[t].calls) : threads[t].calls[k].ev = "alert"

C29_PublishedIsApplied(t) ==
    (\E k \in 1..Len(threads[t].calls) : threads[t].calls[k].ev = "status") =>
        /\ threads[t].pc = "notify"
        /\ InSites(threads[t].url)
        /\ Site(threads[t].url).status_code = threads[t].res.status_code
        /\ Site(threads[t].url).latency_ms = threads[t].res.latency_ms
        /\ Site(threads[t].url).error_message = threads[t].res.error
        /\ Site(threads[t].url).port_open = threads[t].port_open
        /\ PrevGet(threads[t].url) = << Site(threads[t].url).is_online >>

C29_OnePublish(t) ==
    (Published(t) /\ ~env.unsubscribe) =>
        \A cb \in Range(callbacks) : Calls(t, cb, "status") = 1

C29_NoHostNoTcp(t) ==
    ( /\ threads[t].pc \in { "acquire", "apply", "apply2", "detect",
                               "notify_alert", "set_prev", "notify" }
      /\ C27_HostPort(threads[t].url)[1] = <<>> ) => ~threads[t].port_open

C29_ProbeApplyPublish ==
    \A t \in Threads :
        /\ C29_Sequence(t)
        /\ C29_PublishedIsApplied(t)
        /\ C29_OnePublish(t)
        /\ C29_NoHostNoTcp(t)

\* A check started by force_check of the url whose port is no number has
\* called the status callback, with the port closed and no alert.
C29_Witness ==
    \E t \in Threads :
        /\ threads[t].origin = "force_check"
        /\ threads[t].url = UrlTable[4]
        /\ Published(t)
        /\ Calls(t, 1, "status") = 1
        /\ threads[t].alert = <<>>
        /\ ~Site(threads[t].url).port_open
        /\ TRUE \in env.tcp

\* C25: where urls are registered through the application, every key of sites
\* is the url validate_url returned for a text it accepted, is a text
\* validate_url returns as it is, and has a card; and _add_site of a text that
\* validate_url rejects calls nothing of the monitor and leaves sites, the
\* cards, the alert log and the threads as they were.
C25_Accepted(url) ==
    \E raw \in env.inputs :
        /\ validate_url(raw).is_valid
        /\ validate_url(raw).result = UrlText(url)
        /\ UrlParse(validate_url(raw).result) = url

C25_Stored ==
    env.inputs # {} =>
        \A url \in SiteKeys :
            /\ C25_Accepted(url)
            /\ validate_url(UrlText(url)) = Validated(TRUE, UrlText(url), "")
            /\ url \in site_cards

C25_RejectedStep ==
    \A raw \in env.inputs :
        (AppAddSite(raw) /\ ~validate_url(raw).is_valid) =>
            UNCHANGED << sites, previous_states, alerts, site_cards, threads,
                         lock, caller, hist >>

C25_OnlyValidatedStored == []C25_Stored /\ [][C25_RejectedStep]_vars

\* Both urls of the accepted texts are registered and have been checked, and
\* add_site has just returned.
C25_Witness ==
    /\ env.inputs # {}
    /\ SiteKeys = AppUrls
    /\ site_cards = AppUrls
    /\ \A url \in AppUrls : Site(url).status_code = 200 \/ ret.url = url
    /\ ret.op = "add_site"

\* C26: validate_url strips the text, puts "https://" in front of it exactly
\* when it begins with neither "http://" nor "https://", rejects it when the
\* netloc is empty or the host in front of the port is no sequence of domain
\* labels, and returns the text so made otherwise; a url it returns it
\* returns unchanged when given it; "example.com" becomes
\* "https://example.com".
C26_Normal(raw) ==
    LET text == Strip(raw)
    IN  IF StartsWith(text, HttpPrefix) \/ StartsWith(text, HttpsPrefix)
        THEN text ELSE HttpsPrefix \o text

C26_One(raw) ==
    LET v    == validate_url(raw)
        host == HostOf(UrlParse(C26_Normal(raw)).netloc)
    IN  /\ v.is_valid <=> (host # <<>> /\ DomainOk(host))
        /\ v.is_valid =>
              /\ v.result = C26_Normal(raw)
              /\ v.result # <<>>
              /\ v.result[1] \notin Whitespace
              /\ v.result[Len(v.result)] \notin Whitespace
              /\ validate_url(v.result) = v
        /\ raw = InputTable[1] =>
              v = Validated(TRUE, HttpsPrefix \o InputTable[1], "")

C26_NormalizesIdempotently ==
    /\ \A raw \in env.inputs : C26_One(raw)
    /\ \A url \in site_cards : C26_One(UrlText(url))

\* The url of "example.com" is registered as https://example.com and has been
\* checked, next to the url typed with http://.
C26_Witness ==
    /\ InputTable[1] \in env.inputs
    /\ UrlParse(HttpsPrefix \o InputTable[1]) \in site_cards
    /\ InSites(UrlParse(HttpsPrefix \o InputTable[1]))
    /\ Site(UrlParse(HttpsPrefix \o InputTable[1])).status_code = 200
    /\ Site(UrlParse(HttpsPrefix \o InputTable[1])).latency_ms = LatencyMs
    /\ alerts = <<>>
    /\ Cardinality(site_cards) = 2

\* C28: when check_all_sites returns, every url of its snapshot that is still
\* registered has had its turn in the for loop.
C28_EverySiteChecked ==
    [][ \A t \in Threads :
          (Leaves(t, "iter") /\ threads'[t].pc = "wait") =>
              \A k \in 1..Len(threads[t].urls) :
                  InSites(threads[t].urls[k]) => k <= threads[t].idx ]_vars

\* C30: the list of a cycle is the keys of sites when the cycle began and
\* stays as it is until the cycle is over; while the flag is set the turns go
\* through the list one by one, so each url of it has one turn; at its turn a
\* url that is registered goes to the probes and one that is not goes back to
\* the loop without a probe; the periodic worker never checks a url that is
\* not at the index of its turn, so none that was registered after the list
\* was made.
InCycle(t) ==
    /\ threads[t].origin = "start_monitoring"
    /\ threads[t].pc \in { "iter", "check", "probe", "acquire", "apply", "apply2",
                            "detect", "notify_alert", "set_prev", "notify" }

C30_Turn(t) ==
    ( /\ threads[t].origin = "start_monitoring"
      /\ threads[t].pc \in { "check", "probe", "acquire", "apply", "apply2",
                              "detect", "notify_alert", "set_prev", "notify" } ) =>
        /\ threads[t].idx \in 1..Len(threads[t].urls)
        /\ threads[t].url = threads[t].urls[threads[t].idx]

C30_NoDuplicates(t) ==
    InCycle(t) =>
        \A j, k \in 1..Len(threads[t].urls) :
            threads[t].urls[j] = threads[t].urls[k] => j = k

C30_CycleStep(t) ==
    /\ Leaves(t, "snapshot") =>
          /\ threads'[t].urls = KeyList
          /\ threads'[t].idx = 0
          /\ threads'[t].pc = "iter"
    /\ (InCycle(t) /\ InCycle(t)') =>
          /\ threads'[t].urls = threads[t].urls
          /\ threads'[t].idx = IF Leaves(t, "iter") THEN threads[t].idx + 1
                                ELSE threads[t].idx
    /\ (Leaves(t, "iter") /\ running /\ threads[t].idx < Len(threads[t].urls)) =>
          /\ threads'[t].pc = "check"
          /\ threads'[t].url = threads[t].urls[threads[t].idx + 1]
    /\ (Leaves(t, "iter") /\ running /\ threads[t].idx = Len(threads[t].urls)) =>
          threads'[t].pc = "wait"
    /\ (Leaves(t, "check") /\ threads[t].origin = "start_monitoring") =>
          IF InSites(threads[t].url)
          THEN threads'[t].pc = "probe"
          ELSE /\ threads'[t].pc = "iter"
               /\ threads'[t].res = NoResult
               /\ UNCHANGED << sites, previous_states, alerts, lock >>

C30_CycleOnSnapshot ==
    /\ [](\A t \in Threads : C30_Turn(t) /\ C30_NoDuplicates(t))
    /\ [][ \A t \in Threads : C30_CycleStep(t) ]_vars

\* The periodic worker is at the turn of the one url of its list, which has
\* been removed since, and another url has been registered since and is not
\* in the list.
C30_Witness ==
    \E t \in Workers :
        /\ is_running
        /\ threads[t].pc = "check"
        /\ Len(threads[t].urls) = 1
        /\ ~InSites(threads[t].url)
        /\ \E url \in SiteKeys : url \notin Range(threads[t].urls)

\* C31: sites, a SiteStatus, _previous_states and the end of the alert log
\* are written only in a step of the thread that holds the lock, or in the
\* step in which the caller takes the free lock for add_site or remove_site;
\* a thread between lines 368 and 423 holds the lock, so does the caller
\* inside add_site, and the lock has one holder at most.
C31_Holders ==
    /\ Cardinality(lock) <= 1
    /\ \A t \in Threads : InApply(t) <=> lock = {t}
    /\ caller.pc = "add_spawn" <=> lock = {Main}

C31_WriteStep ==
    ( \/ sites' # sites
      \/ previous_states' # previous_states
      \/ Len(alerts') > Len(alerts) ) =>
        \/ \E t \in Threads :
              lock = {t} /\ InApply(t) /\ threads'[t] # threads[t]
        \/ /\ lock = {}
           /\ caller.pc = "idle"
           /\ \E url \in env.urls : AddSiteLock(url) \/ RemoveSite(url)

C31_WritesUnderLock == []C31_Holders /\ [][C31_WriteStep]_vars

\* The caller is inside add_site, the url stored and the lock held, while a
\* check waits with its result for the lock.
C31_Witness ==
    /\ caller.pc = "add_spawn"
    /\ lock = {Main}
    /\ InSites(caller.url)
    /\ \E t \in Threads : threads[t].pc = "acquire" /\ threads[t].url # caller.url

\* C32: during the alert callbacks of a check _previous_states still has what
\* the alert was decided on, and during its status callbacks it has the online
\* flag of the check; when the lock is free, the previous state of a
\* registered url is the is_online of its SiteStatus, and a registered url
\* has no previous state exactly when no check has been applied to it since
\* it was registered.
C32_Order(t) ==
    /\ (threads[t].pc \in { "notify_alert", "set_prev" } /\ threads[t].alert # <<>>) =>
          PrevGet(threads[t].url) # << threads[t].is_now_online >>
    /\ threads[t].pc = "notify" =>
          /\ PrevGet(threads[t].url) = << threads[t].is_now_online >>
          /\ Site(threads[t].url).is_online = threads[t].is_now_online

C32_PrevIsLastOnline ==
    /\ \A t \in Threads : C32_Order(t)
    /\ lock = {} =>
          \A i \in 1..Len(sites) :
              /\ PrevGet(sites[i].url) # <<>> =>
                    PrevGet(sites[i].url) = << sites[i].is_online >>
              /\ PrevGet(sites[i].url) = <<>> <=> hist[sites[i].url].last = <<>>

\* A check of a url has been applied, online and so without an alert, and its
\* previous state is True; another check of it waits with a failure.
C32_Witness ==
    /\ lock = {}
    /\ alerts = <<>>
    /\ \E url \in SiteKeys :
          /\ PrevGet(url) = << TRUE >>
          /\ Site(url).is_online
          /\ \E t \in Threads :
                /\ threads[t].url = url
                /\ threads[t].pc = "acquire"
                /\ threads[t].res.status_code = -1

\* C33: the SiteStatus values a reader finds in the list get_all_sites
\* returns have is_online = (200 <= status_code < 400), and a latency_ms and
\* an error_message that belong to the status_code.
C33_ReaderSeesOneCheck ==
    ret.op = "get_all_sites" =>
        \A i \in 1..Len(ret.val) :
            LET seen == ret.val[i].seen
            IN  /\ seen.is_online <=>
                      (seen.status_code >= 200 /\ seen.status_code < 400)
                /\ seen.status_code = -1 <=> seen.latency_ms = -1
                /\ seen.status_code # -1 => seen.error_message = ""

\* C34: a check that takes the lock and finds its url not registered ends
\* there: the url stays unregistered and without a previous state, nothing
\* is appended to the alert log, no callback has been or is called, and the
\* lock is released; so a url that is not registered has no previous state
\* and no check of it is past the test of line 369.
C34_DiscardStep(t) ==
    (Leaves(t, "apply") /\ ~InSites(threads[t].url)) =>
        /\ ~InSites(threads[t].url)'
        /\ SiteKeys' = SiteKeys
        /\ PrevGet(threads[t].url)' = <<>>
        /\ Appended = <<>>
        /\ threads[t].calls = <<>> /\ threads'[t].calls = <<>>
        /\ threads'[t].pc \in { "idle", "iter" }
        /\ lock' = {}

C34_NoTrace ==
    \A url \in env.urls :
        ~InSites(url) =>
            /\ PrevGet(url) = <<>>
            /\ \A t \in Threads :
                  threads[t].url = url =>
                      /\ threads[t].pc \in { "check", "probe", "acquire", "apply" }
                      /\ threads[t].calls = <<>>
                      /\ threads[t].alert = <<>>

C34_RemovedResultDiscarded ==
    /\ []C34_NoTrace
    /\ [][ \A t \in Threads : C34_DiscardStep(t) ]_vars

\* A check has the lock with a failure of a url that was registered and
\* checked before and has been removed while the check was in its probes.
C34_Witness ==
    \E t \in Threads :
        /\ threads[t].pc = "apply"
        /\ lock = {t}
        /\ ~InSites(threads[t].url)
        /\ threads[t].res.status_code = -1
        /\ hist[threads[t].url].last = << TRUE >>
        /\ alerts = <<>>

\* C35: no thread waits for the registry lock for ever: a thread that stands
\* at the `with self._lock` of add_site or remove_site, called by an observer
\* from inside a check's apply step, can take the lock, or it is held by
\* another thread that goes on to release it.
C35_NoSelfWait ==
    \A t \in Threads :
        threads[t].waits # "" =>
            ObserverCanEnter(t) \/ lock # {t}

\* C36: an alert observer that is called with the alert of a check and calls
\* get_alerts finds that alert as the first entry of the list it gets.
C36_ObserverSeesItsAlert ==
    \A t \in Threads :
        (threads[t].pc = "notify_alert" /\ threads[t].ci < Len(alert_callbacks)) =>
            /\ get_alerts # <<>>
            /\ get_alerts[1] = threads[t].alert[Len(threads[t].alert)]

\* C37: a step of the apply step of a check of url E changes neither the
\* SiteStatus nor the previous state of another url, nor the registered
\* urls, the two observer lists or the running flag, and the alerts it
\* appends have url E.
C37_Frame(t) ==
    (InApply(t) /\ threads'[t] # threads[t]) =>
        /\ SiteKeys' = SiteKeys
        /\ KeyList' = KeyList
        /\ DOMAIN previous_states' \subseteq DOMAIN previous_states \cup { threads[t].url }
        /\ \A url \in env.urls \ { threads[t].url } :
              /\ InSites(url) => Site(url)' = Site(url)
              /\ PrevGet(url)' = PrevGet(url)
        /\ callbacks' = callbacks
        /\ alert_callbacks' = alert_callbacks
        /\ running' = running
        /\ \A i \in 1..Len(Appended) : Appended[i].url = threads[t].url

C37_ApplyTouchesOnlyItsUrl == [][ \A t \in Threads : C37_Frame(t) ]_vars

\* A check of one url has been applied with a down alert while another url
\* is registered, checked and online.
C37_Witness ==
    \E t \in Threads : \E url \in env.urls \ { threads[t].url } :
        /\ threads[t].pc = "notify"
        /\ threads[t].alert # <<>>
        /\ threads[t].alert[1].alert_type = "down"
        /\ ~Site(threads[t].url).is_online
        /\ InSites(url)
        /\ Site(url).is_online
        /\ PrevGet(url) = << TRUE >>

====
